---------------------------- MODULE Spec2Model ----------------------------
(***************************************************************************)
(* Model of geo's line_interpolate_point                                   *)
(* (src/geo/src/algorithm/line_interpolate_point.rs).                      *)
(*                                                                         *)
(* Scalars of the generic type T: Float are modelled as extended           *)
(* rationals: a value is NaN, +Infinity, -Infinity or a finite reduced     *)
(* fraction n/d.  The IEEE-754 rules for the special values (NaN           *)
(* propagation, inf - inf, 0 * inf, x / 0, 0 / 0, inf / inf, undefined     *)
(* comparison with NaN) are modelled as they are; arithmetic on two finite *)
(* values is exact (no rounding, no overflow, no signed zero).             *)
(***************************************************************************)
EXTENDS Integers, Sequences, FiniteSets, TLC

VARIABLES self, fraction, query, pc, total_length, fractional_length,
          cum_length, queue, idx, found, line_frac, result

\* self               the receiver: a Line or a LineString (line 38)
\* fraction           the fraction argument (line 38)
\* query              the point located in test_matches_closest_point (line 264)
\* pc                 control position: "locate", "call", "loop", "done", "panic"
\* total_length, fractional_length, cum_length, queue
\*                    the locals of lines 77-80
\* idx                position of the for loop of line 81
\* found, line_frac   the entry found at line 95 (0: none) and line 97's value
\* result             the returned Option<Point<T>>
vars == <<self, fraction, query, pc, total_length, fractional_length,
          cum_length, queue, idx, found, line_frac, result>>

\* Largest number of points of a LineString that is explored.
MaxPts == 3

-----------------------------------------------------------------------------
(* Scalars *)

Abs(i) == IF i < 0 THEN -i ELSE i

RECURSIVE GCD(_, _)
GCD(a, b) == IF b = 0 THEN a ELSE GCD(b, a % b)

\* The finite value n/d (d > 0), reduced.
Fin(n, d) ==
    LET g == GCD(Abs(n), d)
    IN  [k |-> "fin", n |-> n \div g, d |-> d \div g]

NaN  == [k |-> "nan",  n |-> 0, d |-> 1]
PInf == [k |-> "pinf", n |-> 0, d |-> 1]
NInf == [k |-> "ninf", n |-> 0, d |-> 1]
Zero == Fin(0, 1)
One  == Fin(1, 1)

IsNaN(a)    == a.k = "nan"
IsFinite(a) == a.k = "fin"
IsInf(a)    == a.k \in {"pinf", "ninf"}

\* Sign of a non-NaN value: -1, 0 or 1.
Sign(a) ==
    CASE a.k = "pinf" -> 1
      [] a.k = "ninf" -> -1
      [] OTHER -> IF a.n > 0 THEN 1 ELSE IF a.n < 0 THEN -1 ELSE 0

InfOfSign(s) == IF s > 0 THEN PInf ELSE NInf

Neg(a) ==
    CASE a.k = "nan"  -> NaN
      [] a.k = "pinf" -> NInf
      [] a.k = "ninf" -> PInf
      [] OTHER -> Fin(-a.n, a.d)

Add(a, b) ==
    IF IsNaN(a) \/ IsNaN(b) THEN NaN
    ELSE IF IsInf(a) /\ IsInf(b) THEN (IF a.k = b.k THEN a ELSE NaN)
    ELSE IF IsInf(a) THEN a
    ELSE IF IsInf(b) THEN b
    ELSE Fin(a.n * b.d + b.n * a.d, a.d * b.d)

Sub(a, b) == Add(a, Neg(b))

Mul(a, b) ==
    IF IsNaN(a) \/ IsNaN(b) THEN NaN
    ELSE IF IsInf(a) \/ IsInf(b)
         THEN (IF Sign(a) = 0 \/ Sign(b) = 0 THEN NaN
               ELSE InfOfSign(Sign(a) * Sign(b)))
    ELSE Fin(a.n * b.n, a.d * b.d)

Div(a, b) ==
    IF IsNaN(a) \/ IsNaN(b) THEN NaN
    ELSE IF IsInf(a) /\ IsInf(b) THEN NaN
    ELSE IF IsInf(a) THEN InfOfSign(Sign(a) * (IF Sign(b) < 0 THEN -1 ELSE 1))
    ELSE IF IsInf(b) THEN Zero
    ELSE IF b.n = 0 THEN (IF a.n = 0 THEN NaN ELSE InfOfSign(Sign(a)))
    ELSE IF b.n > 0 THEN Fin(a.n * b.d, a.d * b.n)
    ELSE Fin(-(a.n * b.d), a.d * (-b.n))

\* Float::partial_cmp: "None" when an operand is NaN.
PartialCmp(a, b) ==
    IF IsNaN(a) \/ IsNaN(b) THEN "None"
    ELSE IF a = b THEN "Equal"
    ELSE IF a.k = "ninf" \/ b.k = "pinf" THEN "Less"
    ELSE IF a.k = "pinf" \/ b.k = "ninf" THEN "Greater"
    ELSE IF a.n * b.d < b.n * a.d THEN "Less"
    ELSE "Greater"

\* Exact square root of a natural number that is a perfect square.
ISqrt(m) == CHOOSE r \in 0..m : r * r = m

\* Exact square root of a finite non-negative value that is a perfect square.
Sqrt(a) == Fin(ISqrt(a.n), ISqrt(a.d))

-----------------------------------------------------------------------------
(* Geometry *)

Coord(x, y) == [x |-> x, y |-> y]
Line(s, e)  == [kind |-> "Line", start |-> s, end |-> e, pts |-> <<>>]
LineString(ps) == [kind |-> "LineString", start |-> Coord(Zero, Zero),
                   end |-> Coord(Zero, Zero), pts |-> ps]

None    == [some |-> FALSE, p |-> Coord(Zero, Zero)]
Some(p) == [some |-> TRUE, p |-> p]

CoordFinite(c) == IsFinite(c.x) /\ IsFinite(c.y)

\* LineString::lines(): the consecutive segments, in path order.
Lines(ps) ==
    [i \in 1..(IF Len(ps) = 0 THEN 0 ELSE Len(ps) - 1) |-> Line(ps[i], ps[i + 1])]

\* LineString::points_iter().last()
LastPoint(ps) == IF Len(ps) = 0 THEN None ELSE Some(ps[Len(ps)])

\* Line::euclidean_length: the distance between the end points; NaN exactly
\* when a coordinate of the segment is not finite.
LineEuclideanLength(l) ==
    IF CoordFinite(l.start) /\ CoordFinite(l.end)
    THEN LET dx == Sub(l.end.x, l.start.x)
             dy == Sub(l.end.y, l.start.y)
         IN  Sqrt(Add(Mul(dx, dx), Mul(dy, dy)))
    ELSE NaN

RECURSIVE SumLengths(_, _)
SumLengths(ls, n) ==
    IF n = 0 THEN Zero
    ELSE Add(SumLengths(ls, n - 1), LineEuclideanLength(ls[n]))

\* LineString::euclidean_length: the sum of the segments' lengths.
LineStringEuclideanLength(ps) == SumLengths(Lines(ps), Len(Lines(ps)))

-----------------------------------------------------------------------------
(* impl LineInterpolatePoint for Line *)

\* Variant: `|` for `&` in the finiteness test of line 60.
LineInterpolateArith_EitherFinite(l, f) ==
    LET s == <<l.start.x, l.start.y>>
        v == <<Sub(l.end.x, l.start.x), Sub(l.end.y, l.start.y)>>
        r == <<Add(Mul(f, v[1]), s[1]), Add(Mul(f, v[2]), s[2])>>
    IN  IF IsFinite(r[1]) \/ IsFinite(r[2])
        THEN Some(Coord(r[1], r[2]))
        ELSE None

LineInterpolateArith(l, f) ==
    LET s == <<l.start.x, l.start.y>>
        v == <<Sub(l.end.x, l.start.x), Sub(l.end.y, l.start.y)>>
        r == <<Add(Mul(f, v[1]), s[1]), Add(Mul(f, v[2]), s[2])>>
    IN  IF IsFinite(r[1]) /\ IsFinite(r[2])
        THEN Some(Coord(r[1], r[2]))
        ELSE None

\* Variant: only the strict comparisons return early; fractions equal to 0
\* or 1 go through the arithmetic.
LineInterpolatePoint_EqualFallsThrough(l, f) ==
    LET c0 == PartialCmp(f, Zero)
        c1 == PartialCmp(f, One)
    IN  CASE c0 = "None"    -> None
          [] c0 = "Less"    -> Some(l.start)
          [] c0 = "Equal"   -> LineInterpolateArith(l, f)
          [] c0 = "Greater" ->
                CASE c1 = "None"    -> None
                  [] c1 = "Greater" -> Some(l.end)
                  [] c1 = "Equal"   -> LineInterpolateArith(l, f)
                  [] c1 = "Less"    -> LineInterpolateArith(l, f)

\* Variant: boolean comparisons, which a NaN fraction fails, in place of
\* partial_cmp(..)? : a NaN fraction is taken for "not above 0".
LineInterpolatePoint_NaNIsStart(l, f) ==
    LET c0 == PartialCmp(f, Zero)
        c1 == PartialCmp(f, One)
    IN  CASE c0 = "None"    -> Some(l.start)
          [] c0 = "Less"    -> Some(l.start)
          [] c0 = "Equal"   -> Some(l.start)
          [] c0 = "Greater" ->
                CASE c1 = "None"    -> None
                  [] c1 = "Greater" -> Some(l.end)
                  [] c1 = "Equal"   -> Some(l.end)
                  [] c1 = "Less"    -> LineInterpolateArith(l, f)

LineInterpolatePoint(l, f) ==
    LET c0 == PartialCmp(f, Zero)
        c1 == PartialCmp(f, One)
    IN  CASE c0 = "None"    -> None
          [] c0 = "Less"    -> Some(l.start)
          [] c0 = "Equal"   -> Some(l.start)
          [] c0 = "Greater" ->
                CASE c1 = "None"    -> None
                  [] c1 = "Greater" -> Some(l.end)
                  [] c1 = "Equal"   -> Some(l.end)
                  [] c1 = "Less"    -> LineInterpolateArith(l, f)

-----------------------------------------------------------------------------
(* impl LineInterpolatePoint for LineString *)

\* One element of `queue`: partial_cmp(..).map(|o| (cum_length, o, length, line)).
Entry(cum, len, l, target) ==
    LET o == PartialCmp(Add(cum, len), target)
    IN  [ok |-> o # "None", cum |-> cum, ord |-> o, len |-> len, line |-> l]

\* collect::<Option<Vec<_>>>(): None as soon as one element is None.
Collected(q) == \A i \in 1..Len(q) : q[i].ok

\* find(|x| x.1 != Ordering::Less): index of the first match, 0 when none.
Find(q) ==
    IF \E i \in 1..Len(q) : q[i].ord # "Less"
    THEN CHOOSE i \in 1..Len(q) :
            /\ q[i].ord # "Less"
            /\ \A j \in 1..(i - 1) : q[j].ord = "Less"
    ELSE 0

\* Variant: the length traced before the segment is not subtracted.
LineFrac_NoCum(target, x) == Div(target, x.len)

LineFrac(target, x) == Div(Sub(target, x.cum), x.len)

-----------------------------------------------------------------------------
(* Collaborators of test_matches_closest_point *)

Min(a, b) == IF PartialCmp(a, b) = "Less" THEN a ELSE b
Max(a, b) == IF PartialCmp(a, b) = "Greater" THEN a ELSE b

\* Parameter in [0, 1] of the point of segment l closest to q (0 on a
\* segment of zero length).
LineLocate(l, q) ==
    LET vx == Sub(l.end.x, l.start.x)
        vy == Sub(l.end.y, l.start.y)
        v_sq == Add(Mul(vx, vx), Mul(vy, vy))
        v_dot_sp == Add(Mul(vx, Sub(q.x, l.start.x)), Mul(vy, Sub(q.y, l.start.y)))
    IN  IF v_sq = Zero THEN Zero
        ELSE Max(Zero, Min(One, Div(v_dot_sp, v_sq)))

LineClosest(l, q) ==
    LET t == LineLocate(l, q)
    IN  Coord(Add(l.start.x, Mul(t, Sub(l.end.x, l.start.x))),
              Add(l.start.y, Mul(t, Sub(l.end.y, l.start.y))))

DistSq(a, b) ==
    LET dx == Sub(b.x, a.x)
        dy == Sub(b.y, a.y)
    IN  Add(Mul(dx, dx), Mul(dy, dy))

\* Index of the first segment of the path that holds a point closest to q.
ClosestLine(ps, q) ==
    CHOOSE i \in 1..Len(Lines(ps)) :
        /\ \A j \in 1..Len(Lines(ps)) :
              PartialCmp(DistSq(LineClosest(Lines(ps)[j], q), q),
                         DistSq(LineClosest(Lines(ps)[i], q), q)) # "Less"
        /\ \A j \in 1..(i - 1) :
              PartialCmp(DistSq(LineClosest(Lines(ps)[j], q), q),
                         DistSq(LineClosest(Lines(ps)[i], q), q)) = "Greater"

\* LineString::closest_point: the point of the path closest to q.
ClosestPoint(ps, q) == LineClosest(Lines(ps)[ClosestLine(ps, q)], q)

\* LineString::line_locate_point: the arc length from the first point of the
\* path to the point closest to q, as a fraction of the total length.
LineLocatePoint(ps, q) ==
    LET i == ClosestLine(ps, q)
        l == Lines(ps)[i]
    IN  Div(Add(SumLengths(Lines(ps), i - 1),
                Mul(LineLocate(l, q), LineEuclideanLength(l))),
            LineStringEuclideanLength(ps))

\* The paths on which line_locate_point returns a fraction: finite
\* coordinates and a positive total length.
Locatable(ps) ==
    /\ \A i \in 1..Len(ps) : CoordFinite(ps[i])
    /\ PartialCmp(LineStringEuclideanLength(ps), Zero) = "Greater"

-----------------------------------------------------------------------------
(* Inputs *)

FiniteCoords ==
    { Coord(Fin(-3, 1), Zero), Coord(Zero, Zero),
      Coord(Zero, Fin(4, 1)),  Coord(Fin(-3, 1), Fin(4, 1)) }

NonFiniteCoords ==
    { Coord(NaN, Zero), Coord(Zero, PInf), Coord(NInf, Fin(4, 1)),
      Coord(PInf, NaN) }

Coords == FiniteCoords \cup NonFiniteCoords

Fractions ==
    { NInf, Fin(-1, 1), Zero, Fin(1, 4), Fin(3, 7), Fin(1, 2), Fin(3, 4),
      One, Fin(2, 1), PInf, NaN }

Queries == FiniteCoords \cup { Coord(Fin(-1, 1), One), Coord(One, Fin(2, 1)) }

Paths == UNION { [1..n -> Coords] : n \in 0..MaxPts }

Selves ==
    { Line(s, e) : s \in Coords, e \in Coords } \cup { LineString(ps) : ps \in Paths }

-----------------------------------------------------------------------------
(* State machine *)

Init ==
    /\ \/ /\ pc = "call"
          /\ self \in Selves
          /\ fraction \in Fractions
          /\ query = None
       \/ /\ pc = "locate"
          /\ self \in { LineString(ps) : ps \in Paths }
          /\ fraction = Zero
          /\ query \in { Some(q) : q \in Queries }
    /\ total_length = Zero
    /\ fractional_length = Zero
    /\ cum_length = Zero
    /\ queue = <<>>
    /\ idx = 0
    /\ found = 0
    /\ line_frac = Zero
    /\ result = None

\* Line::line_interpolate_point(&self, fraction)
CallLine ==
    /\ pc = "call"
    /\ self.kind = "Line"
    /\ result' = LineInterpolatePoint(self, fraction)
    /\ pc' = "done"
    /\ UNCHANGED <<self, fraction, query, total_length, fractional_length, cum_length,
                   queue, idx, found, line_frac>>

\* LineString::line_interpolate_point, lines 77-80.
CallLineString ==
    /\ pc = "call"
    /\ self.kind = "LineString"
    /\ total_length' = LineStringEuclideanLength(self.pts)
    /\ fractional_length' = Mul(LineStringEuclideanLength(self.pts), fraction)
    /\ cum_length' = Zero
    /\ queue' = <<>>
    /\ idx' = 1
    /\ pc' = "loop"
    /\ UNCHANGED <<self, fraction, query, found, line_frac, result>>

\* One iteration of `for line in self.lines()`, lines 81-88.
LoopStep ==
    /\ pc = "loop"
    /\ idx <= Len(Lines(self.pts))
    /\ LET l      == Lines(self.pts)[idx]
           length == LineEuclideanLength(l)
       IN  /\ queue' = Append(queue, Entry(cum_length, length, l, fractional_length))
           /\ cum_length' = Add(cum_length, length)
    /\ idx' = idx + 1
    /\ UNCHANGED <<self, fraction, query, pc, total_length, fractional_length, found,
                   line_frac, result>>

\* The search over the collected queue, lines 89-103.
FoundOf(q) == IF Collected(q) THEN Find(q) ELSE 0

LineFracOf(q, target) ==
    IF FoundOf(q) # 0 THEN LineFrac(target, q[FoundOf(q)]) ELSE Zero

\* Variant: no fallback to the last point when no segment is found.
ResultOf_NoFallback(ps, q, target) ==
    IF ~Collected(q) THEN None
    ELSE IF Find(q) # 0
         THEN LineInterpolatePoint(q[Find(q)].line, LineFrac(target, q[Find(q)]))
         ELSE None

ResultOf(ps, q, target) ==
    IF ~Collected(q) THEN None
    ELSE IF Find(q) # 0
         THEN LineInterpolatePoint(q[Find(q)].line, LineFrac(target, q[Find(q)]))
         ELSE LastPoint(ps)

Search ==
    /\ pc = "loop"
    /\ idx > Len(Lines(self.pts))
    /\ found' = FoundOf(queue)
    /\ line_frac' = LineFracOf(queue, fractional_length)
    /\ result' = ResultOf(self.pts, queue, fractional_length)
    /\ pc' = "done"
    /\ UNCHANGED <<self, fraction, query, total_length, fractional_length, cum_length,
                   queue, idx>>

\* test_matches_closest_point, lines 265-267: the fraction passed on is the
\* one line_locate_point returns for the query point.
Locate ==
    /\ pc = "locate"
    /\ Locatable(self.pts)
    /\ fraction' = LineLocatePoint(self.pts, query.p)
    /\ pc' = "call"
    /\ UNCHANGED <<self, query, total_length, fractional_length, cum_length,
                   queue, idx, found, line_frac, result>>

\* line_locate_point returns no fraction: the test stops at `expect`.
LocateNone ==
    /\ pc = "locate"
    /\ ~Locatable(self.pts)
    /\ pc' = "panic"
    /\ UNCHANGED <<self, fraction, query, total_length, fractional_length,
                   cum_length, queue, idx, found, line_frac, result>>

Next == CallLine \/ CallLineString \/ LoopStep \/ Search \/ Locate \/ LocateNone

Spec == Init /\ [][Next]_vars

-----------------------------------------------------------------------------
(* Vocabulary of the properties *)

Done(kind) == pc = "done" /\ self.kind = kind

Lt(a, b)  == a.n * b.d < b.n * a.d        \* a < b, both finite
Leq(a, b) == a.n * b.d <= b.n * a.d       \* a <= b, both finite

FractionLeqZero == fraction.k = "ninf" \/ (fraction.k = "fin" /\ fraction.n <= 0)
FractionGeqOne  == fraction.k = "pinf" \/ (fraction.k = "fin" /\ fraction.n >= fraction.d)
FractionLtZero  == fraction.k = "ninf" \/ (fraction.k = "fin" /\ fraction.n < 0)
FractionGtOne   == fraction.k = "pinf" \/ (fraction.k = "fin" /\ fraction.n > fraction.d)
FractionInside  == fraction.k = "fin" /\ 0 < fraction.n /\ fraction.n < fraction.d

PathFinite == \A i \in 1..Len(self.pts) : CoordFinite(self.pts[i])
PathNonFinite == \E i \in 1..Len(self.pts) : ~CoordFinite(self.pts[i])
NumLines == Len(Lines(self.pts))

\* Arc length from the first point of the path to the end of its i-th segment.
CumEnd(i) == SumLengths(Lines(self.pts), i)
PathLength == CumEnd(NumLines)
SegLen(i) == LineEuclideanLength(Lines(self.pts)[i])

\* The point at parameter t of the path's i-th segment.
PointOn(i, t) ==
    LET l == Lines(self.pts)[i]
    IN  Coord(Add(l.start.x, Mul(t, Sub(l.end.x, l.start.x))),
              Add(l.start.y, Mul(t, Sub(l.end.y, l.start.y))))

Dist(a, b) ==
    LET dx == Sub(b.x, a.x)
        dy == Sub(b.y, a.y)
    IN  Sqrt(Add(Mul(dx, dx), Mul(dy, dy)))

-----------------------------------------------------------------------------
(* C2 *)

Thm_C8_LineAffine ==
    (Done("Line") /\ FractionInside) =>
        LET rx == Add(self.start.x, Mul(fraction, Sub(self.end.x, self.start.x)))
            ry == Add(self.start.y, Mul(fraction, Sub(self.end.y, self.start.y)))
        IN  /\ (IsFinite(rx) /\ IsFinite(ry)) => result = Some(Coord(rx, ry))
            /\ ~(IsFinite(rx) /\ IsFinite(ry)) => result = None
            /\ ~(CoordFinite(self.start) /\ CoordFinite(self.end)) => result = None

Wit_C8_LineAffine ==
    /\ Done("Line")
    /\ fraction = Fin(1, 4)
    /\ self.start = Coord(Fin(-3, 1), Zero)
    /\ self.end = Coord(Zero, Fin(4, 1))
    /\ result = Some(Coord(Fin(-9, 4), One))

Wit_C8_LineNonFinite ==
    /\ Done("Line")
    /\ FractionInside
    /\ CoordFinite(self.start)
    /\ ~CoordFinite(self.end)
    /\ result = None

(* C1 *)

\* The first segment, in path order, whose cumulative end length reaches the
\* target length f*L; 0 when there is none.
FirstReaching ==
    LET target == Mul(PathLength, fraction)
        R == { i \in 1..NumLines : Leq(target, CumEnd(i)) }
    IN  IF R = {} THEN 0 ELSE CHOOSE i \in R : \A j \in R : i <= j

\* C1: on a path with finite coordinates and positive total length L, for a
\* fraction f with 0 < f <= 1, the result is Some(p), p lying on the first
\* segment whose cumulative end length is >= f*L at local fraction
\* (f*L - cum_before)/len; that segment has len > 0, the local fraction is
\* in (0, 1], and the arc length from the first point of the path to p is f*L.
Thm_C1_ArcLength ==
    (Done("LineString") /\ PathFinite /\ Lt(Zero, PathLength)
        /\ (FractionInside \/ fraction = One)) =>
        LET i      == FirstReaching
            target == Mul(PathLength, fraction)
            t      == Div(Sub(target, CumEnd(i - 1)), SegLen(i))
        IN  /\ i # 0
            /\ found = i
            /\ Lt(Zero, SegLen(i))
            /\ line_frac = t
            /\ IsFinite(t) /\ Lt(Zero, t) /\ Leq(t, One)
            /\ result = Some(PointOn(i, t))
            /\ Add(CumEnd(i - 1), Dist(Lines(self.pts)[i].start, result.p)) = target

\* The target falls strictly inside the second segment, after a first
\* segment of positive length.
Wit_C1_ArcLength ==
    /\ Done("LineString")
    /\ self.pts = << Coord(Fin(-3, 1), Zero), Coord(Zero, Zero), Coord(Zero, Fin(4, 1)) >>
    /\ fraction = Fin(3, 4)
    /\ found = 2
    /\ line_frac = Fin(9, 16)
    /\ result = Some(Coord(Zero, Fin(9, 4)))

\* A zero-length first segment is skipped for a fraction above 0.
Wit_C1_SkipsDegenerate ==
    /\ Done("LineString")
    /\ self.pts = << Coord(Zero, Zero), Coord(Zero, Zero), Coord(Zero, Fin(4, 1)) >>
    /\ fraction = Fin(1, 4)
    /\ found = 2
    /\ result = Some(Coord(Zero, One))

(* C3 *)

\* C3: whenever the fraction is NaN the result is None, for a Line and for
\* a LineString of any number of points.
Cex_C3_NaNFraction ==
    (pc = "done" /\ IsNaN(fraction)) => result = None

\* The part of C3 about Line.
Obs_C3_LineNaN ==
    (Done("Line") /\ IsNaN(fraction)) => result = None

(* C4 *)

\* C4: on a non-empty path with finite coordinates, fraction 0 gives the
\* first point and fraction 1 the last point.
Cex_C4_Endpoints ==
    (Done("LineString") /\ PathFinite /\ Len(self.pts) > 0) =>
        /\ fraction = Zero => result = Some(self.pts[1])
        /\ fraction = One  => result = Some(self.pts[Len(self.pts)])

(* C5 *)

\* C5: on a non-empty path with finite coordinates, a fraction below 0 gives
\* the first point and a fraction above 1 the last point.
Cex_C5_OutOfRange ==
    (Done("LineString") /\ PathFinite /\ Len(self.pts) > 0) =>
        /\ FractionLtZero => result = Some(self.pts[1])
        /\ FractionGtOne  => result = Some(self.pts[Len(self.pts)])

(* C6 *)

\* C6: a path with a NaN or infinite coordinate gives None for every finite
\* fraction.
Cex_C6_NonFinitePath ==
    (Done("LineString") /\ PathNonFinite /\ IsFinite(fraction)) => result = None

(* C7 *)

Wit_C7_Empty ==
    /\ Done("LineString")
    /\ Len(self.pts) = 0
    /\ fraction = Fin(1, 2)
    /\ result = None

(* C10 *)

SelectedDegenerate ==
    /\ Done("LineString")
    /\ found # 0
    /\ queue[found].len = Zero

\* C10 as stated: whenever the selected segment has zero length, the local
\* fraction is NaN and the result is None, for every fraction.
Cex_C10_DegenerateSelected ==
    SelectedDegenerate => (IsNaN(line_frac) /\ result = None)

\* C10 as amended: a selected segment of zero length is the first segment;
\* when the target length is 0 the local fraction is 0/0 = NaN and the
\* result is None; otherwise the target length is negative, the local
\* fraction is negative infinity and the result is Some(first point).
Thm_C10_DegenerateSelected ==
    SelectedDegenerate =>
        /\ found = 1
        /\ fractional_length = Zero => (IsNaN(line_frac) /\ result = None)
        /\ fractional_length # Zero =>
              /\ Sign(fractional_length) < 0
              /\ line_frac = NInf
              /\ result = Some(self.pts[1])

Wit_C10_NaN ==
    /\ SelectedDegenerate
    /\ fractional_length = Zero
    /\ IsNaN(line_frac)
    /\ result = None

Wit_C10_NegInf ==
    /\ SelectedDegenerate
    /\ FractionLtZero
    /\ line_frac = NInf
    /\ result = Some(self.pts[1])

(* C9 *)

\* C9: when line_locate_point(P, Q) returns a fraction f, interpolating P at
\* f gives Some(p), p the point of P closest to Q.
Cex_C9_LocateInverse ==
    (Done("LineString") /\ query.some) =>
        result = Some(ClosestPoint(self.pts, query.p))

\* The round trip on paths that have no zero-length first segment.
Obs_C9_LocateInverse ==
    (Done("LineString") /\ query.some /\ self.pts[1] # self.pts[2]) =>
        result = Some(ClosestPoint(self.pts, query.p))

=============================================================================
